---- MODULE Spec2Model ----
(***************************************************************************)
(* Model of the Foodpanda scraper (src/app.py): the pagination/scroll      *)
(* controller get_restaurant_urls, the per-entity extraction                *)
(* extract_restaurant_details, the session loop scrape and the flush        *)
(* _save_data.                                                              *)
(*                                                                          *)
(* A listing page is a sequence of cards in document order, of which the    *)
(* first `visible` are in the rendered markup.  A card carries its href     *)
(* (absolute, relative to the base address, or missing) and the selector    *)
(* strategies that match it.  A URL is modelled by its form and the entity  *)
(* it names, so that urljoin is a real conversion: a relative href and the  *)
(* absolute URL it resolves to are different values.                        *)
(*                                                                          *)
(* The specifications share the state and the actions:                      *)
(*   SpecUrls   get_restaurant_urls called on its own, on feeds of any mix  *)
(*              of cards;                                                   *)
(*   Spec       a whole run of the script: constructor, discovery, the loop *)
(*              over the entities with its flushes, the final flush;        *)
(*   SpecSave   _save_data called on its own on any accumulated sequence;   *)
(*   SpecDomain whole runs started with any --location;                     *)
(*   SpecGate   one navigation and the captcha check that follows it;       *)
(*   SpecItems  _get_menu_items called on its own on any item container;    *)
(*   SpecMenu   _get_menu called on its own on any menu markup.             *)
(***************************************************************************)
EXTENDS Integers, Sequences, FiniteSets, TLC

\* ------------------------------------------------------------------ bounds
\* cards of a listing feed when get_restaurant_urls is exercised on its own
MaxCards == 2
\* largest limit passed to get_restaurant_urls
MaxLimit == 2

\* ------------------------------------------------------- program constants
max_scroll_attempts == 20

\* Optional[int] = None: the absent limit, an integer no length or limit equals
None == -1

restaurant_selectors ==
    << "a[data-testid='restaurant-card']",
       "a[href*='/restaurant/']",
       "a[class*='restaurant']",
       "a[class*='vendor']" >>

\* ------------------------------------------------------------------- state
VARIABLES
    pc,               \* position of the run
    page,             \* the listing feed: every card it will ever show
    visible,          \* how many cards of the feed are rendered now
    limit,            \* argument of get_restaurant_urls (None or a number)
    restaurant_urls,  \* local list of get_restaurant_urls / its return value
    prev_count,       \* local of the scroll loop
    scroll_attempts,  \* local of the scroll loop
    known,            \* entities discovered when the previous iteration ended
    idle,             \* consecutive iterations that discovered no new entity
    max_restaurants,  \* argument of scrape (None or a number)
    i,                \* index of the scrape loop
    data,             \* self.data: the accumulated outcomes
    json_file,        \* content of foodpanda_data.json
    csv_file,         \* content of foodpanda_data.csv (its rows)
    flushed,          \* what the last step did to the files: none, ok, failed
    flush_count,      \* calls of _save_data so far
    write_failed,     \* some write of this run raised
    last_failure,     \* what went wrong in the latest entity attempt
    location,         \* self.location
    base_url,         \* self.base_url
    gate_page,        \* the page a navigation loaded: its kind, its markers
    stdin,            \* standard input of the process: a terminal, or closed
    gate_checks,      \* runs of the captcha check since the navigation
    ack_requests,     \* calls of input() since the navigation
    acknowledged,     \* a call of input() returned
    snapshot_reads,   \* reads of driver.page_source since the navigation
    item_container,   \* argument of _get_menu_items
    items_result,     \* what _get_menu_items returned
    dom,              \* the entity page _get_menu works on
    last_height,      \* local of the menu scroll loop
    shrunk,           \* the latest pass measured a smaller height
    passes,           \* passes of the menu scroll loop so far
    soup,             \* the snapshot _get_menu extracts from
    menu_result       \* what _get_menu returned

urlsVars == << page, visible, limit, restaurant_urls, prev_count,
               scroll_attempts, known, idle >>

sessionVars == << max_restaurants, i, data, json_file, csv_file, flushed,
                  flush_count, write_failed, last_failure >>

domainVars == << location, base_url >>

gateVars == << gate_page, stdin, gate_checks, ack_requests, acknowledged,
               snapshot_reads >>

itemsVars == << item_container, items_result >>

menuVars == << dom, last_height, shrunk, passes, soup, menu_result >>

unitVars == << gateVars, itemsVars, menuVars >>

vars == << pc, urlsVars, sessionVars, domainVars, unitVars >>

\* ----------------------------------------------------------------- helpers
Range(s) == { s[n] : n \in 1..Len(s) }

Take(s, n) == SubSeq(s, 1, IF n < Len(s) THEN n ELSE Len(s))

SeqsUpTo(S, n) == UNION { [1..k -> S] : k \in 0..n }

NoDuplicates(s) == \A m, n \in 1..Len(s) : s[m] = s[n] => m = n

\* urllib.parse.urljoin(self.base_url, url): an absolute href is returned as
\* it is, a relative one is resolved against the base address
urljoin(url) == [form |-> "abs", id |-> url.id]

Href(form, id) == [form |-> form, id |-> id]

\* soup.select(selector) on the rendered markup
Select(snapshot, selector) ==
    SelectSeq(snapshot, LAMBDA card : selector \in card.sels)

\* for card in cards: url = card.get('href');
\*     if url and url not in restaurant_urls: append(urljoin(base_url, url))
RECURSIVE CollectCards(_, _)
CollectCards(urls, cards) ==
    IF cards = << >> THEN urls
    ELSE LET url == Head(cards).href
         IN  CollectCards(
               IF url.form # "none" /\ url \notin Range(urls)
               THEN Append(urls, urljoin(url))
               ELSE urls,
               Tail(cards))

\* the first extraction: the selectors in priority order, a selector that no
\* element matches times out, the first selector that leaves the list
\* non-empty ends the search
RECURSIVE FirstExtraction(_, _, _)
FirstExtraction(snapshot, k, urls) ==
    IF k > Len(restaurant_selectors) THEN urls
    ELSE LET cards == Select(snapshot, restaurant_selectors[k])
         IN  IF cards = << >>
             THEN FirstExtraction(snapshot, k + 1, urls)
             ELSE LET got == CollectCards(urls, cards)
                  IN  IF got # << >> THEN got
                      ELSE FirstExtraction(snapshot, k + 1, got)

\* the extraction of one scroll iteration: every selector, no break
RECURSIVE LoopExtraction(_, _, _)
LoopExtraction(snapshot, k, urls) ==
    IF k > Len(restaurant_selectors) THEN urls
    ELSE LoopExtraction(snapshot, k + 1,
             CollectCards(urls, Select(snapshot, restaurant_selectors[k])))

\* while (limit is None or len(restaurant_urls) < limit)
\*       and scroll_attempts < max_scroll_attempts
LoopCondition ==
    /\ limit = None \/ Len(restaurant_urls) < limit
    /\ scroll_attempts < max_scroll_attempts

EntitiesOf(urls) == { u.id : u \in Range(urls) }

\* ------------------------------------------------------------ base address
\* A str is modelled by its lower-case text and the positions at which it
\* has a capital letter, so that str.lower() is a real conversion.
Str(text, caps) == [text |-> text, caps |-> caps]

\* str.lower()
lower(s) == [s EXCEPT !.caps = {}]

\* lines 68-79; the keys are written in lower case
location_map ==
    "singapore" :> "sg" @@ "malaysia" :> "my" @@ "thailand" :> "co.th" @@
    "philippines" :> "ph" @@ "hong kong" :> "hk" @@ "taiwan" :> "tw" @@
    "pakistan" :> "pk" @@ "bangladesh" :> "com.bd" @@ "japan" :> "jp" @@
    "germany" :> "de"

\* key in d, for a dict d whose keys are lower-case literals
HasKey(d, key) == key.caps = {} /\ key.text \in DOMAIN d

\* d.get(key, default)
Get(d, key, default) == IF HasKey(d, key) THEN d[key.text] ELSE default

\* variant: the table is looked up with the location as typed
get_domain_extension_as_typed(loc) == Get(location_map, loc, "com")

\* line 80
_get_domain_extension(loc) == Get(location_map, lower(loc), "com")

\* line 60: f"https://www.foodpanda.{extension}"
BaseUrl(extension) == [prefix |-> "https://www.foodpanda.", suffix |-> extension]

\* self.base_url before the constructor has run: no such attribute
NoBaseUrl == [prefix |-> "", suffix |-> ""]

\* line 51 and line 765: the default of location and of --location
DefaultLocation == Str("pakistan", {})

\* the object FoodpandaScraper(headless=True) leaves
Constructed ==
    /\ location = DefaultLocation
    /\ base_url = BaseUrl(_get_domain_extension(location))


\* ------------------------------------------------------------ entity pages
\* An entity page as the extractors see it.  h1 is "" when no heading ever
\* appears.  The menu root (div.menu) is absent or a sequence of child nodes:
\* a text node, or an element holding item elements (li).
NoRoot == << [kind |-> "absent"] >>

TextNode == [kind |-> "text"]

Container(items) == [kind |-> "div", items |-> items]

ItemElem(name, price_text) ==
    [ name |-> name, description |-> "tasty", price_text |-> price_text,
      style |-> [property |-> "background-image", url |-> "item.jpg"] ]

Label(name, count) == [name |-> name, count |-> count]

Digits == {"0", "1", "2", "3", "4", "5", "6", "7", "8", "9"}

\* re.search(r'\d+', price_text): the first run of digits, "" without one
RECURSIVE DigitRun(_)
DigitRun(text) ==
    IF text = << >> \/ Head(text) \notin Digits THEN << >>
    ELSE << Head(text) >> \o DigitRun(Tail(text))

RECURSIVE GetPrice(_)
GetPrice(price_text) ==
    IF price_text = << >> THEN << >>
    ELSE IF Head(price_text) \in Digits THEN DigitRun(price_text)
    ELSE GetPrice(Tail(price_text))

\* lines 628-657: one item per li that has a name
RECURSIVE ItemsOf(_)
ItemsOf(elems) ==
    IF elems = << >> THEN << >>
    ELSE LET e == Head(elems)
             item == [ name |-> e.name, description |-> e.description,
                       price |-> GetPrice(e.price_text),
                       image |-> e.style.url ]
         IN  (IF e.name # "" THEN << item >> ELSE << >>) \o ItemsOf(Tail(elems))

\* variant: the test of the name at line 651 is left out
get_menu_items_keeping_nameless(container) ==
    IF container.kind # "div" THEN << >>
    ELSE [ n \in 1..Len(container.items) |->
             [ name |-> container.items[n].name,
               description |-> container.items[n].description,
               price |-> GetPrice(container.items[n].price_text),
               image |-> container.items[n].style.url ] ]

\* _get_menu_items(container): a node without select() raises inside the
\* try and the handler returns []
_get_menu_items(container) ==
    IF container.kind # "div" THEN << >> ELSE ItemsOf(container.items)

\* re.sub(r'\(\d+\)$', '', text).strip()
CategoryName(label) == label.name

\* lines 588-610: label i is paired with menu_items_container.contents[i];
\* an index past the children raises IndexError, caught at line 608
RECURSIVE MenuFrom(_, _, _)
MenuFrom(pg, k, menu) ==
    IF k > Len(pg.labels) THEN menu
    ELSE IF pg.root = NoRoot THEN MenuFrom(pg, k + 1, menu)
    ELSE IF k > Len(pg.root) THEN << >>
    ELSE LET menu_items == _get_menu_items(pg.root[k])
         IN  MenuFrom(pg, k + 1,
                 IF menu_items # << >>
                 THEN Append(menu, [ category |-> CategoryName(pg.labels[k]),
                                     items |-> menu_items ])
                 ELSE menu)

\* pg is the page as the snapshot used at line 588 shows it (the one taken
\* after the scroll of lines 568-586, or the one passed in when it fails)
_get_menu(pg) == MenuFrom(pg, 1, << >>)

\* lines 323-343: the first image lookup that has a src
_get_image(pg) ==
    IF pg.hero_img # "" THEN pg.hero_img
    ELSE IF pg.header_img # "" THEN pg.header_img
    ELSE pg.any_img

\* lines 345-376: the address is read from the snapshot taken after the
\* "more info" click, or from the snapshot passed in when the click fails
_get_address(pg, clickOk) ==
    IF clickOk THEN pg.address_revealed ELSE pg.address_initial

Url(id) == Href("abs", id)

\* lines 288-309
RestaurantData(pg, clickOk) ==
    [ name |-> pg.h1,
      image |-> _get_image(pg),
      state |-> "punjab",
      city |-> "Lahore",
      country_code |-> "PK",
      postal_code |-> "54000",
      email |-> "",
      cuisines |-> pg.cuisines,
      latitude |-> pg.latitude,
      longitude |-> pg.longitude,
      price_range |-> "$$$",
      phone |-> "",
      menu |-> _get_menu(pg),
      address |-> _get_address(pg, clickOk) ]

\* dict item assignment d[k] = v
SetKey(d, k, v) ==
    [ f \in DOMAIN d \cup {k} |-> IF f = k THEN v ELSE d[f] ]

\* variant: the handler keeps what was extracted before the failure
PlaceholderWithPartialRecord(url) ==
    [url |-> url, error |-> "str(e)", name |-> "Test Restaurant Name"]

\* lines 253-313: a record, or {"url": url, "error": str(e)} when the
\* navigation, the wait for h1 or the snapshot raises
\* (the text of the exception is not modelled)
ErrorPlaceholder(url) == [url |-> url, error |-> "str(e)"]

\* variant: the wait for h1 is allowed to time out and extraction goes on
extract_ignoring_heading_timeout(url, pg, fail, clickOk) ==
    IF fail = "navigation" THEN ErrorPlaceholder(url)
    ELSE IF fail = "page_source" THEN ErrorPlaceholder(url)
    ELSE RestaurantData(pg, clickOk)

\* variant: a failed navigation is swallowed and the stale page is read
extract_ignoring_navigation_failure(url, pg, fail, clickOk) ==
    IF pg.h1 = "" THEN ErrorPlaceholder(url)
    ELSE IF fail = "page_source" THEN ErrorPlaceholder(url)
    ELSE RestaurantData(pg, clickOk)

extract_restaurant_details(url, pg, fail, clickOk) ==
    IF fail = "navigation" THEN ErrorPlaceholder(url)
    ELSE IF pg.h1 = "" THEN ErrorPlaceholder(url)
    ELSE IF fail = "page_source" THEN ErrorPlaceholder(url)
    ELSE RestaurantData(pg, clickOk)

Rs500 == << "R", "s", ".", " ", "5", "0", "0" >>

PageWithMenu ==
    [ h1 |-> "Test Restaurant Name", hero_img |-> "test-image.jpg",
      header_img |-> "", any_img |-> "",
      cuisines |-> << "Italian", "Pizza" >>,
      latitude |-> "31.5", longitude |-> "74.3",
      labels |-> << Label("Appetizers", 5), Label("Main Course", 10) >>,
      root |-> << Container(<< ItemElem("Test Item", Rs500),
                               ItemElem("", Rs500),
                               ItemElem("Test Item 2", << >>) >>),
                  Container(<< ItemElem("Test Item 3", Rs500) >>) >>,
      address_initial |-> "", address_revealed |-> "123 Test Street" ]

PageNoMenu ==
    [ h1 |-> "Plain", hero_img |-> "", header_img |-> "header.jpg",
      any_img |-> "any.jpg", cuisines |-> << >>,
      latitude |-> "", longitude |-> "",
      labels |-> << >>, root |-> NoRoot,
      address_initial |-> "", address_revealed |-> "" ]

PageNoHeading == [ PageNoMenu EXCEPT !.h1 = "" ]

EntityPages == { PageWithMenu, PageNoMenu, PageNoHeading }

Failures == { "none", "navigation", "page_source" }

\* ------------------------------------- state of the parts not in progress
\* no navigation under way
NoPage == [kind |-> "none", markers |-> {}]

NoGate ==
    /\ gate_page = NoPage
    /\ stdin = "tty"
    /\ gate_checks = 0
    /\ ack_requests = 0
    /\ acknowledged = FALSE
    /\ snapshot_reads = 0

\* no call of _get_menu_items under way
NoItems ==
    /\ item_container = TextNode
    /\ items_result = << >>

\* no call of _get_menu under way
NoMenu ==
    /\ dom = [labels |-> << >>, root |-> NoRoot]
    /\ last_height = 0
    /\ shrunk = FALSE
    /\ passes = 0
    /\ soup = "passed_in"
    /\ menu_result = << >>

\* no call of get_restaurant_urls under way
NoUrls ==
    /\ page = << >>
    /\ visible = 0
    /\ limit = None
    /\ restaurant_urls = << >>
    /\ prev_count = 0
    /\ scroll_attempts = 0
    /\ known = {}
    /\ idle = 0

\* -------------------------------------------------------------- _save_data
\* ", ".join(cuisines)
Join(cuisines) == [sep |-> ", ", parts |-> cuisines]

\* lines 723-724
BasicInfo(restaurant) ==
    LET info == [ k \in DOMAIN restaurant \ {"menu"} |-> restaurant[k] ]
    IN  SetKey(info, "cuisines",
               Join(IF "cuisines" \in DOMAIN info THEN info.cuisines ELSE << >>))

\* lines 736-743
ItemRow(basic_info, cat_name, item) ==
    [ f \in DOMAIN basic_info \cup {"menu_category", "menu_item_name",
          "menu_item_description", "menu_item_price", "menu_item_image"} |->
        CASE f = "menu_category" -> cat_name
          [] f = "menu_item_name" -> item.name
          [] f = "menu_item_description" -> item.description
          [] f = "menu_item_price" -> item.price
          [] f = "menu_item_image" -> item.image
          [] OTHER -> basic_info[f] ]

RECURSIVE ItemRows(_, _, _)
ItemRows(basic_info, cat_name, items) ==
    IF items = << >> THEN << >>
    ELSE << ItemRow(basic_info, cat_name, Head(items)) >>
           \o ItemRows(basic_info, cat_name, Tail(items))

RECURSIVE MenuRows(_, _)
MenuRows(basic_info, menu) ==
    IF menu = << >> THEN << >>
    ELSE ItemRows(basic_info, Head(menu).category, Head(menu).items)
           \o MenuRows(basic_info, Tail(menu))

\* lines 720-743: the rows of one accumulated outcome
EntityRows(restaurant) ==
    IF "error" \in DOMAIN restaurant THEN << >>
    ELSE LET menu == IF "menu" \in DOMAIN restaurant
                     THEN restaurant.menu ELSE << >>
         IN  IF menu = << >> THEN << BasicInfo(restaurant) >>
             ELSE MenuRows(BasicInfo(restaurant), menu)

\* variant: the rows of a later entity are put before those of an earlier
RECURSIVE FlattenNewestFirst(_)
FlattenNewestFirst(entries) ==
    IF entries = << >> THEN << >>
    ELSE FlattenNewestFirst(Tail(entries)) \o EntityRows(Head(entries))

\* lines 718-743: flattened_data
RECURSIVE Flatten(_)
Flatten(entries) ==
    IF entries = << >> THEN << >>
    ELSE EntityRows(Head(entries)) \o Flatten(Tail(entries))

\* lines 746-748: the tabular file is written only when there are rows
CsvAfter(rows, old) == IF rows # << >> THEN rows ELSE old

\* _save_data on the sequence d; a failing write (open of the structured
\* file raising) is caught at line 751 with nothing written
SaveData(d, writeOk) ==
    /\ flush_count' = flush_count + 1
    /\ IF writeOk
       THEN /\ json_file' = d
            /\ csv_file' = CsvAfter(Flatten(d), csv_file)
            /\ flushed' = "ok"
            /\ UNCHANGED write_failed
       ELSE /\ flushed' = "failed"
            /\ write_failed' = TRUE
            /\ UNCHANGED << json_file, csv_file >>

\* lines 698: if (i + 1) % 5 == 0 or i == total - 1
SaveInterval == 5

\* variant: the cadence test is off by one
SaveDueLate(k, total) == (k + 1) % (SaveInterval + 1) = 0 \/ k = total - 1

SaveDue(k, total) == (k + 1) % SaveInterval = 0 \/ k = total - 1

\* files a run finds: none, or those an earlier run left
EarlierRow == [ name |-> "earlier run", url |-> Url(0) ]

EarlierFiles == { << >>, << EarlierRow >> }

NoSession ==
    /\ max_restaurants = None
    /\ i = 0
    /\ data = << >>
    /\ json_file = << >>
    /\ csv_file = << >>
    /\ flushed = "none"
    /\ flush_count = 0
    /\ write_failed = FALSE
    /\ last_failure = "none"

\* ------------------------------------------------------------ listing feed
CardSels == { {restaurant_selectors[1]},
              {restaurant_selectors[1], restaurant_selectors[2]},
              {restaurant_selectors[2]},
              {restaurant_selectors[4]} }

CardKinds ==
    [ href : ([form : {"abs", "rel"}, id : 1..MaxCards]
                \cup {Href("none", 0)}),
      sels : CardSels ]

Limits == {None} \cup 1..MaxLimit

InitUrls ==
    /\ pc = "urls_start"
    /\ page \in SeqsUpTo(CardKinds, MaxCards)
    /\ visible \in 0..Len(page)
    /\ limit \in Limits
    /\ restaurant_urls = << >>
    /\ prev_count = 0
    /\ scroll_attempts = 0
    /\ known = {}
    /\ idle = 0
    /\ NoSession
    /\ Constructed
    /\ NoGate
    /\ NoItems
    /\ NoMenu

\* --------------------------------------------------- get_restaurant_urls
\* lines 136-206: navigation, first extraction, early return on no card
GetUrlsStart ==
    /\ pc = "urls_start"
    /\ \E navOk \in BOOLEAN :
         LET first == FirstExtraction(Take(page, visible), 1, << >>)
         IN  IF ~navOk
             THEN /\ restaurant_urls' = << >>
                  /\ pc' = "urls_done"
             ELSE /\ restaurant_urls' = first
                  /\ pc' = IF first = << >> THEN "urls_done" ELSE "urls_loop"
    /\ prev_count' = 0
    /\ scroll_attempts' = 0
    /\ UNCHANGED << page, visible, limit, known, idle, sessionVars >>
    /\ UNCHANGED << domainVars, unitVars >>

\* lines 208-234: one iteration of the scroll loop
ScrollIteration ==
    /\ pc = "urls_loop"
    /\ LoopCondition
    /\ idle <= max_scroll_attempts  \* a run that never ends is followed this far
    /\ \E scriptOk \in BOOLEAN, more \in visible..Len(page) :
         LET found == LoopExtraction(Take(page, visible), 1, restaurant_urls)
             attempts == IF Len(found) = prev_count
                         THEN scroll_attempts + 1 ELSE 0
         IN  /\ known' = EntitiesOf(found)
             /\ idle' = IF EntitiesOf(found) \subseteq known
                        THEN idle + 1 ELSE 0
             /\ IF ~scriptOk
                THEN \* execute_script raises: lines 239-241
                     /\ restaurant_urls' = << >>
                     /\ pc' = "urls_done"
                     /\ UNCHANGED << prev_count, scroll_attempts, visible >>
                ELSE /\ prev_count' = Len(found)
                     /\ scroll_attempts' = attempts
                     /\ visible' = more
                     /\ IF limit # None /\ Len(found) >= limit
                        THEN /\ restaurant_urls' = Take(found, limit)
                             /\ pc' = "urls_done"
                        ELSE /\ restaurant_urls' = found
                             /\ pc' = "urls_loop"
    /\ UNCHANGED << page, limit, sessionVars, domainVars, unitVars >>

\* lines 236-237: the loop condition is false
GetUrlsReturn ==
    /\ pc = "urls_loop"
    /\ ~LoopCondition
    /\ pc' = "urls_done"
    /\ UNCHANGED << urlsVars, sessionVars, domainVars, unitVars >>

NextUrls == GetUrlsStart \/ ScrollIteration \/ GetUrlsReturn

SpecUrls == InitUrls /\ [][NextUrls]_vars

\* ------------------------------------------------------------ the main run
\* entities of the listing feed of a whole run
MaxEntities == 6

\* a feed of n entities, absolute hrefs, cards matched by the first two
\* selector strategies
ListingOf(n) ==
    [ k \in 1..n |->
        [ href |-> Url(k),
          sels |-> {restaurant_selectors[1], restaurant_selectors[2]} ] ]

\* (limit, max_restaurants) of a whole run: none, or both set
MainArgs == { << None, None >>, << MaxLimit, MaxLimit + 1 >> }

Init ==
    /\ pc = "main"
    /\ page \in { ListingOf(n) : n \in 0..MaxEntities }
    /\ visible = Len(page)
    /\ \E args \in MainArgs : limit = args[1] /\ max_restaurants = args[2]
    /\ \E earlier \in EarlierFiles : json_file = earlier /\ csv_file = earlier
    /\ restaurant_urls = << >>
    /\ prev_count = 0
    /\ scroll_attempts = 0
    /\ known = {}
    /\ idle = 0
    /\ i = 0
    /\ data = << >>
    /\ flushed = "none"
    /\ flush_count = 0
    /\ write_failed = FALSE
    /\ last_failure = "none"
    /\ location = DefaultLocation
    /\ base_url = NoBaseUrl
    /\ NoGate
    /\ NoItems
    /\ NoMenu

\* lines 772-779 and 51-64: the constructor; a failing setup_webdriver
\* raises out of it and the script logs and ends
Construct ==
    /\ pc = "main"
    /\ \E setupOk \in BOOLEAN :
         pc' = IF setupOk THEN "urls_start" ELSE "setup_failed"
    /\ base_url' = BaseUrl(_get_domain_extension(location))
    /\ data' = << >>
    /\ UNCHANGED << urlsVars, max_restaurants, i, json_file, csv_file,
                    flushed, flush_count, write_failed, last_failure >>
    /\ UNCHANGED << location, unitVars >>

\* lines 676-682
ScrapeBegin ==
    /\ pc = "urls_done"
    /\ restaurant_urls' = IF max_restaurants # None
                          THEN Take(restaurant_urls, max_restaurants)
                          ELSE restaurant_urls
    /\ i' = 0
    /\ pc' = "scrape_loop"
    /\ UNCHANGED << page, visible, limit, prev_count, scroll_attempts, known,
                    idle, max_restaurants, data, json_file, csv_file, flushed,
                    flush_count, write_failed, last_failure >>
    /\ UNCHANGED << domainVars, unitVars >>

FailureOf(pg, fail) ==
    IF fail = "navigation" THEN "navigation"
    ELSE IF pg.h1 = "" THEN "heading"
    ELSE fail

\* lines 684-699: one pass of the loop over the references
ScrapeEntity ==
    /\ pc = "scrape_loop"
    /\ i < Len(restaurant_urls)
    /\ \E pg \in EntityPages, fail \in Failures, clickOk \in BOOLEAN,
          writeOk \in IF SaveDue(i, Len(restaurant_urls))
                      THEN BOOLEAN ELSE {TRUE} :
         LET url == restaurant_urls[i + 1]
             restaurant_data ==
                 SetKey(extract_restaurant_details(url, pg, fail, clickOk),
                        "url", url)
         IN  /\ data' = Append(data, restaurant_data)
             /\ last_failure' = FailureOf(pg, fail)
             /\ IF SaveDue(i, Len(restaurant_urls))
                THEN SaveData(Append(data, restaurant_data), writeOk)
                ELSE /\ flushed' = "none"
                     /\ UNCHANGED << json_file, csv_file, flush_count,
                                     write_failed >>
    /\ i' = i + 1
    /\ pc' = "scrape_loop"
    /\ UNCHANGED << urlsVars, max_restaurants, domainVars, unitVars >>

\* lines 701 and 706-708: the loop is over; return, final flush, close
ScrapeReturn ==
    /\ pc = "scrape_loop"
    /\ i = Len(restaurant_urls)
    /\ \E writeOk \in BOOLEAN : SaveData(data, writeOk)
    /\ pc' = "done"
    /\ UNCHANGED << urlsVars, max_restaurants, i, data, last_failure >>
    /\ UNCHANGED << domainVars, unitVars >>

\* lines 706-708: an exception that is no Exception (KeyboardInterrupt
\* during a delay) leaves the loop through the finally clause
Interrupt ==
    /\ pc = "scrape_loop"
    /\ i < Len(restaurant_urls)
    /\ \E writeOk \in BOOLEAN : SaveData(data, writeOk)
    /\ pc' = "interrupted"
    /\ UNCHANGED << urlsVars, max_restaurants, i, data, last_failure >>
    /\ UNCHANGED << domainVars, unitVars >>

Next ==
    \/ Construct
    \/ GetUrlsStart
    \/ ScrollIteration
    \/ GetUrlsReturn
    \/ ScrapeBegin
    \/ ScrapeEntity
    \/ ScrapeReturn
    \/ Interrupt

Spec == Init /\ [][Next]_vars

\* ----------------------------------------------- _save_data called directly
\* entries of self.data when _save_data is exercised on its own, as
\* test_save_data does by assigning self.data
MaxSaved == 3

EmptyCategory == [category |-> "Coming soon", items |-> << >>]

EntryShapes ==
    { RestaurantData(PageWithMenu, TRUE),
      RestaurantData(PageNoMenu, TRUE),
      [ RestaurantData(PageNoMenu, TRUE) EXCEPT !.menu = << EmptyCategory >> ],
      [ RestaurantData(PageWithMenu, TRUE) EXCEPT
          !.menu = << EmptyCategory >> \o @ ],
      [error |-> "str(e)"] }

InitSave ==
    /\ pc = "save_start"
    /\ \E shapes \in SeqsUpTo(EntryShapes, MaxSaved) :
         data = [ k \in 1..Len(shapes) |-> SetKey(shapes[k], "url", Url(k)) ]
    /\ \E earlier \in EarlierFiles : json_file = earlier /\ csv_file = earlier
    /\ page = << >>
    /\ visible = 0
    /\ limit = None
    /\ max_restaurants = None
    /\ restaurant_urls = << >>
    /\ prev_count = 0
    /\ scroll_attempts = 0
    /\ known = {}
    /\ idle = 0
    /\ i = 0
    /\ flushed = "none"
    /\ flush_count = 0
    /\ write_failed = FALSE
    /\ last_failure = "none"
    /\ Constructed
    /\ NoGate
    /\ NoItems
    /\ NoMenu

\* lines 710-752
SaveCall ==
    /\ pc = "save_start"
    /\ \E writeOk \in BOOLEAN : SaveData(data, writeOk)
    /\ pc' = "save_done"
    /\ UNCHANGED << urlsVars, max_restaurants, i, data, last_failure >>
    /\ UNCHANGED << domainVars, unitVars >>

NextSave == SaveCall

SpecSave == InitSave /\ [][NextSave]_vars

\* ------------------------------------------------ runs with any --location
\* capital letters a location may have: at its first MaxCaps positions
MaxCaps == 1

\* entities of the listing feed of these runs
MaxListed == 1

\* --location: a key of the table or not, in any mix of cases
Locations ==
    { Str(text, caps) :
        text \in DOMAIN location_map \cup {"invalid_location", "unknownland"},
        caps \in SUBSET (1..MaxCaps) }

InitDomain ==
    /\ pc = "main"
    /\ location \in Locations
    /\ base_url = NoBaseUrl
    /\ page \in { ListingOf(n) : n \in 0..MaxListed }
    /\ visible = Len(page)
    /\ \E args \in MainArgs : limit = args[1] /\ max_restaurants = args[2]
    /\ json_file = << >>
    /\ csv_file = << >>
    /\ restaurant_urls = << >>
    /\ prev_count = 0
    /\ scroll_attempts = 0
    /\ known = {}
    /\ idle = 0
    /\ i = 0
    /\ data = << >>
    /\ flushed = "none"
    /\ flush_count = 0
    /\ write_failed = FALSE
    /\ last_failure = "none"
    /\ NoGate
    /\ NoItems
    /\ NoMenu

SpecDomain == InitDomain /\ [][Next]_vars

\* ------------------------------------------------------- the captcha check
\* lines 141-146 and 258-263
captcha_selectors ==
    << "iframe[src*='captcha']",
       "iframe[src*='recaptcha']",
       "div[class*='captcha']",
       "div[class*='recaptcha']" >>

\* the selectors a page's elements match: an element whose src or class
\* contains "recaptcha" contains "captcha" too
MarkerSets ==
    { m \in SUBSET Range(captcha_selectors) :
        /\ captcha_selectors[2] \in m => captcha_selectors[1] \in m
        /\ captcha_selectors[4] \in m => captcha_selectors[3] \in m }

GatePages == [ kind : {"listing", "entity"}, markers : MarkerSets ]

InitGate ==
    /\ pc = "gate_start"
    /\ gate_page \in GatePages
    /\ stdin \in {"tty", "closed"}
    /\ gate_checks = 0
    /\ ack_requests = 0
    /\ acknowledged = FALSE
    /\ snapshot_reads = 0
    /\ NoUrls
    /\ NoSession
    /\ Constructed
    /\ NoItems
    /\ NoMenu

\* lines 138 and 255: self.driver.get(...); when it raises, the function's
\* outer handler ends the call
Navigate ==
    /\ pc = "gate_start"
    /\ \E navOk \in BOOLEAN :
         pc' = IF navOk THEN "gate_check" ELSE "gate_nav_failed"
    /\ UNCHANGED << urlsVars, sessionVars, domainVars, unitVars >>

\* lines 140-158 and 257-275: the waits for the selectors in order, up to
\* the call of input() for the first one that is present
CaptchaCheck ==
    /\ pc = "gate_check"
    /\ gate_checks' = gate_checks + 1
    /\ IF \E k \in 1..Len(captcha_selectors) :
              captcha_selectors[k] \in gate_page.markers
       THEN /\ ack_requests' = ack_requests + 1
            /\ pc' = "gate_input"
       ELSE /\ UNCHANGED ack_requests
            /\ pc' = "gate_passed"
    /\ UNCHANGED << gate_page, stdin, acknowledged, snapshot_reads >>
    /\ UNCHANGED << urlsVars, sessionVars, domainVars, itemsVars, menuVars >>

\* lines 154-155 and 271-272: Enter is pressed, input() returns, break
InputReturns ==
    /\ pc = "gate_input"
    /\ stdin = "tty"
    /\ acknowledged' = TRUE
    /\ pc' = "gate_passed"
    /\ UNCHANGED << gate_page, stdin, gate_checks, ack_requests,
                    snapshot_reads >>
    /\ UNCHANGED << urlsVars, sessionVars, domainVars, itemsVars, menuVars >>

\* lines 159-160 and 276-277: input() raises EOFError on a closed standard
\* input; the handler logs a warning and the function goes on
InputRaises ==
    /\ pc = "gate_input"
    /\ stdin = "closed"
    /\ pc' = "gate_passed"
    /\ UNCHANGED << urlsVars, sessionVars, domainVars, unitVars >>

\* lines 163-186 and 280-288: the waits for the page's elements, then
\* BeautifulSoup(self.driver.page_source); a wait that fails ends the call
\* with no snapshot read
ReadSnapshot ==
    /\ pc = "gate_passed"
    /\ \E elementOk \in BOOLEAN :
         IF elementOk
         THEN /\ snapshot_reads' = snapshot_reads + 1
              /\ pc' = "gate_read"
         ELSE /\ UNCHANGED snapshot_reads
              /\ pc' = "gate_unread"
    /\ UNCHANGED << gate_page, stdin, gate_checks, ack_requests,
                    acknowledged >>
    /\ UNCHANGED << urlsVars, sessionVars, domainVars, itemsVars, menuVars >>

NextGate ==
    \/ Navigate
    \/ CaptchaCheck
    \/ InputReturns
    \/ InputRaises
    \/ ReadSnapshot

SpecGate == InitGate /\ [][NextGate]_vars

\* ------------------------------------------ _get_menu_items called directly
\* item elements of a container
MaxItems == 3

ItemElems ==
    { ItemElem(name, price_text) :
        name \in {"", "Test Item", "Test Item 2"},
        price_text \in {Rs500, << >>} }

InitItems ==
    /\ pc = "items_start"
    /\ item_container \in
          {TextNode} \cup
          { Container(elems) : elems \in SeqsUpTo(ItemElems, MaxItems) }
    /\ items_result = << >>
    /\ NoUrls
    /\ NoSession
    /\ Constructed
    /\ NoGate
    /\ NoMenu

\* lines 612-662
GetMenuItems ==
    /\ pc = "items_start"
    /\ items_result' = _get_menu_items(item_container)
    /\ pc' = "items_done"
    /\ UNCHANGED << urlsVars, sessionVars, domainVars, gateVars, menuVars,
                    item_container >>

NextItems == GetMenuItems

SpecItems == InitItems /\ [][NextItems]_vars

\* ------------------------------------------------ _get_menu called directly
\* child nodes of the menu root
MaxNodes == 3

\* document.body.scrollHeight is up to MaxHeight scroll steps
MaxHeight == 2

\* passes of the scroll loop that are followed
MaxPasses == 3

\* line 573: range(0, last_height, 300)
scroll_step == 300

Heights == { n * scroll_step : n \in 1..MaxHeight }

MenuLabels ==
    << Label("Appetizers", 5), Label("Main Course", 10), Label("Desserts", 2) >>

NodeKinds ==
    { TextNode,
      Container(<< >>),
      Container(<< ItemElem("Test Item", Rs500) >>),
      Container(<< ItemElem("Test Item 2", << >>), ItemElem("", Rs500) >>) }

MenuPages ==
    [ labels : { Take(MenuLabels, n) : n \in 0..Len(MenuLabels) },
      root : {NoRoot} \cup SeqsUpTo(NodeKinds, MaxNodes) ]

InitMenu ==
    /\ pc = "menu_start"
    /\ dom \in MenuPages
    /\ last_height = 0
    /\ shrunk = FALSE
    /\ passes = 0
    /\ soup = "passed_in"
    /\ menu_result = << >>
    /\ NoUrls
    /\ NoSession
    /\ Constructed
    /\ NoGate
    /\ NoItems

\* line 570: the first measure of the height; a script that raises is
\* caught at line 585 and the snapshot passed in is kept
MenuScrollStart ==
    /\ pc = "menu_start"
    /\ \E scriptOk \in BOOLEAN, height \in Heights :
         IF scriptOk
         THEN /\ last_height' = height
              /\ pc' = "menu_scroll"
         ELSE /\ UNCHANGED last_height
              /\ pc' = "menu_extract"
    /\ UNCHANGED << dom, shrunk, passes, soup, menu_result >>
    /\ UNCHANGED << urlsVars, sessionVars, domainVars, gateVars, itemsVars >>

\* lines 571-584: one pass of the while loop: the scroll steps, the new
\* measure, the test; on equal heights the loop ends and the snapshot is
\* taken again
MenuScrollPass ==
    /\ pc = "menu_scroll"
    /\ passes < MaxPasses  \* a loop that never ends is followed this far
    /\ \E scriptOk \in BOOLEAN, new_height \in Heights :
         IF ~scriptOk
         THEN /\ pc' = "menu_extract"
              /\ UNCHANGED << last_height, shrunk, passes, soup >>
         ELSE /\ passes' = passes + 1
              /\ IF new_height = last_height
                 THEN /\ soup' = "after_scroll"
                      /\ pc' = "menu_extract"
                      /\ UNCHANGED << last_height, shrunk >>
                 ELSE /\ last_height' = new_height
                      /\ shrunk' = (new_height < last_height)
                      /\ pc' = "menu_scroll"
                      /\ UNCHANGED soup
    /\ UNCHANGED << dom, menu_result >>
    /\ UNCHANGED << urlsVars, sessionVars, domainVars, gateVars, itemsVars >>

\* lines 588-610
MenuExtract ==
    /\ pc = "menu_extract"
    /\ menu_result' = _get_menu(dom)
    /\ pc' = "menu_done"
    /\ UNCHANGED << dom, last_height, shrunk, passes, soup >>
    /\ UNCHANGED << urlsVars, sessionVars, domainVars, gateVars, itemsVars >>

NextMenu == MenuScrollStart \/ MenuScrollPass \/ MenuExtract

SpecMenu == InitMenu /\ [][NextMenu]_vars

\* ------------------------------------------------------------------ claims
IsError(entry) == "error" \in DOMAIN entry

Attempted == i > 0 /\ Len(data) >= i

\* C1: with no limit, get_restaurant_urls leaves the scroll loop no later
\* than the 20th consecutive scroll iteration that discovered no new
\* reference (an iteration counts as discovering when it knows an entity the
\* previous iteration did not; the first iteration is measured against
\* nothing known, as prev_count = 0 does), whatever the form of the hrefs.
C1_StopsWithinNoGrowthBound ==
    (limit = None /\ pc = "urls_loop") => idle <= max_scroll_attempts

\* C2: the list returned by get_restaurant_urls never holds the same
\* reference twice.
C2_ReturnedUrlsAreDistinct ==
    pc = "urls_done" => NoDuplicates(restaurant_urls)

\* C3: with a limit L, get_restaurant_urls never returns more than L
\* references, also when the first extraction already yields L or more.
C3_ReturnedUrlsWithinLimit ==
    (pc = "urls_done" /\ limit # None) => Len(restaurant_urls) <= limit

\* C4, as claimed: when the heading never appears, the outcome appended for
\* the entity is a record, not an error placeholder.
C4_HeadingTimeoutYieldsRecord ==
    (Attempted /\ last_failure = "heading") => ~IsError(data[i])

\* C4, amended: when the heading never appears, no field extractor runs and
\* the outcome appended for the entity is the error placeholder, made of the
\* reference and the error only.
C4_HeadingTimeoutYieldsPlaceholder ==
    (Attempted /\ last_failure = "heading") =>
        /\ DOMAIN data[i] = {"url", "error"}
        /\ data[i].url = restaurant_urls[i]

C4_Witness ==
    /\ Attempted
    /\ last_failure = "heading"
    /\ i < Len(restaurant_urls)

\* C5: every reference of the list scrape works on is attempted: one outcome
\* is appended per reference, in order and carrying it; a failed entity
\* yields an error placeholder; and the loop goes on after a failure to the
\* end of the list.
C5_OneOutcomePerReference ==
    /\ pc = "scrape_loop" => Len(data) = i
    /\ pc = "done" => Len(data) = Len(restaurant_urls)
    /\ pc \in {"scrape_loop", "done"} =>
          \A k \in 1..Len(data) : data[k].url = restaurant_urls[k]
    /\ (Attempted /\ last_failure # "none") => IsError(data[i])
    /\ (Attempted /\ last_failure = "none") => ~IsError(data[i])

C5_Witness ==
    /\ pc = "done"
    /\ Len(data) >= 3
    /\ IsError(data[1])
    /\ ~IsError(data[2])
    /\ IsError(data[3])
    /\ last_failure = "navigation"

\* the outcomes of data the structured file does not hold
Unpersisted ==
    IF Len(json_file) <= Len(data) /\ json_file = Take(data, Len(json_file))
    THEN Len(data) - Len(json_file)
    ELSE Len(data)

\* C6: while writes succeed, the structured file holds the first 5, 10, ...
\* outcomes right after the 5th, 10th, ... append, so at most 4 outcomes are
\* unpersisted when an entity attempt starts; and when scrape ends, by its
\* return or by an exception, the final flush leaves the whole accumulated
\* sequence in the structured file.
C6_FlushCadence ==
    /\ (pc = "scrape_loop" /\ ~write_failed) =>
          /\ Unpersisted <= 4
          /\ Len(data) >= 5 => json_file = Take(data, 5 * (Len(data) \div 5))
                               \/ json_file = data
    /\ (pc = "scrape_loop" /\ i < Len(restaurant_urls)) =>
          flush_count = i \div 5
    /\ (pc \in {"done", "interrupted"} /\ flushed = "ok") => json_file = data
    /\ pc \in {"done", "interrupted"} => flushed # "none"

C6_Witness ==
    /\ pc = "scrape_loop"
    /\ i = 5
    /\ i < Len(restaurant_urls)
    /\ ~write_failed
    /\ json_file = data

\* C7: when the browser session cannot be created, a final flush is still
\* attempted before the process exits.
C7_SetupFailureStillFlushes ==
    pc = "setup_failed" => flush_count > 0

\* C8: after every flush that completes without a write error both files
\* hold the current accumulated sequence and nothing else: the structured
\* file the sequence, the tabular file exactly its flattened rows.
C8_FilesReflectCurrentSequence ==
    flushed = "ok" => json_file = data /\ csv_file = Flatten(data)

\* C9: after a flush the structured file has one entry per accumulated
\* outcome and the rows of the tabular file come from exactly the non-error
\* entities.
C9_RowsFromExactlyNonErrorEntities ==
    flushed = "ok" =>
        /\ Len(json_file) = Len(data)
        /\ \A r \in 1..Len(csv_file) :
              \E k \in 1..Len(data) :
                  ~IsError(data[k]) /\ data[k].url = csv_file[r].url
        /\ \A k \in 1..Len(data) :
              ~IsError(data[k]) =>
                  \E r \in 1..Len(csv_file) : csv_file[r].url = data[k].url

RECURSIVE TotalItems(_)
TotalItems(menu) ==
    IF menu = << >> THEN 0 ELSE Len(Head(menu).items) + TotalItems(Tail(menu))

RowsOf(rows, url) == Cardinality({ r \in 1..Len(rows) : rows[r].url = url })

\* C10: every non-error entity is flattened to one row per menu item, and to
\* exactly one row when it has no menu item, be its menu empty or made of
\* categories without items.
C10_OneRowPerItemOrOneRow ==
    flushed = "ok" =>
        \A k \in 1..Len(data) :
            ~IsError(data[k]) =>
                RowsOf(csv_file, data[k].url) =
                    IF TotalItems(data[k].menu) = 0 THEN 1
                    ELSE TotalItems(data[k].menu)

\* the rows of the tabular file that carry the reference of outcome k
RowsFor(k) == SelectSeq(csv_file, LAMBDA row : row.url = data[k].url)

\* the outcomes whose reference a row carries
OutcomesOf(row) == { k \in 1..Len(data) : data[k].url = row.url }

EntityRecordFields ==
    { "name", "image", "state", "city", "country_code", "postal_code",
      "email", "cuisines", "latitude", "longitude", "price_range", "phone",
      "menu", "address" }

\* C12: in every state of a run each entry of the accumulated sequence is
\* either a record with every field of an entity record plus its reference
\* and no error indicator, or a placeholder made of the reference and the
\* error indicator only.
C12_EntriesAreRecordsOrPlaceholders ==
    \A k \in 1..Len(data) :
        \/ DOMAIN data[k] = EntityRecordFields \cup {"url"}
        \/ DOMAIN data[k] = {"url", "error"}

C12_Witness ==
    /\ pc = "scrape_loop"
    /\ Len(data) = 2
    /\ DOMAIN data[1] = {"url", "error"}
    /\ DOMAIN data[2] = EntityRecordFields \cup {"url"}
    /\ data[2].menu # << >>

\* C13: after a navigation the captcha check has run once before any
\* snapshot of the page is read; a detected marker holds the pipeline until
\* the acknowledgment has arrived, with one request of it at most; and a
\* page with no marker goes on with no request.
C13_ChallengeHoldsPipeline ==
    /\ snapshot_reads > 0 => gate_checks = 1
    /\ ack_requests <= 1
    /\ gate_page.markers = {} => ack_requests = 0
    /\ (snapshot_reads > 0 /\ gate_page.markers # {}) => acknowledged

\* the strategies that match at least one element of a snapshot
Matching(snapshot) ==
    { k \in 1..Len(restaurant_selectors) :
        Select(snapshot, restaurant_selectors[k]) # << >> }

\* the entities of the cards that the first matching strategy selects
FromFirstStrategy(snapshot) ==
    IF Matching(snapshot) = {} THEN {}
    ELSE LET best == CHOOSE k \in Matching(snapshot) :
                         \A n \in Matching(snapshot) : k <= n
         IN  { c.href.id :
                 c \in { card \in Range(Select(snapshot,
                                                restaurant_selectors[best])) :
                            card.href.form # "none" } }

\* C14: on a feed whose cards all carry an href, the references
\* get_restaurant_urls holds come only from the first strategy, in priority
\* order, that matches an element of a snapshot it read (the first one or
\* that of a scroll iteration): a strategy of lower priority contributes
\* nothing once one of higher priority has matched.
C14_OnlyFirstMatchingStrategy ==
    (/\ pc \in {"urls_loop", "urls_done"}
     /\ \A n \in 1..Len(page) : page[n].href.form # "none") =>
        EntitiesOf(restaurant_urls) \subseteq
            UNION { FromFirstStrategy(Take(page, v)) : v \in 0..visible }

\* C20: a script that fails in a step only skips the step: when the scroll
\* script of a pagination iteration fails after references were discovered,
\* get_restaurant_urls still returns references.
C20_ScriptFailureKeepsReferences ==
    (pc = "urls_done" /\ known # {}) => restaurant_urls # << >>

\* the item elements that have a name, in document order
Named(elems) == SelectSeq(elems, LAMBDA elem : elem.name # "")

\* C15: _get_menu_items emits no item with an empty name: an element with
\* no name contributes nothing, every element with a name contributes
\* exactly one item, and the items keep document order.
C15_NoNamelessItem ==
    (pc = "items_done" /\ item_container.kind = "div") =>
        LET named == Named(item_container.items)
        IN  /\ Len(items_result) = Len(named)
            /\ \A k \in 1..Len(items_result) :
                  /\ items_result[k].name # ""
                  /\ items_result[k].name = named[k].name
                  /\ items_result[k].price = GetPrice(named[k].price_text)

C15_Witness ==
    /\ pc = "items_done"
    /\ item_container.kind = "div"
    /\ Len(item_container.items) = 3
    /\ item_container.items[1].name = "Test Item 2"
    /\ item_container.items[2].name = ""
    /\ item_container.items[3].name = "Test Item"
    /\ Len(items_result) = 2
    /\ items_result[2].name = "Test Item"

\* C16, as claimed: the base address carries the mapped suffix when the
\* location string is in the table and "com" when the string is not in it.
C16_SuffixByTableMembership ==
    pc # "main" =>
        base_url = BaseUrl(IF HasKey(location_map, location)
                           THEN location_map[location.text] ELSE "com")

\* the suffix of the key that a location spells, whatever its capitals
SuffixOf(loc) ==
    IF loc.text \in DOMAIN location_map
    THEN location_map[loc.text] ELSE "com"

\* C16, amended: the location is matched without regard to case: the base
\* address carries the mapped suffix when the lower-cased location is a key
\* of the table and "com" when it is not; it is built by the constructor and
\* no later step changes it.
C16_SuffixByLowerCasedLocation ==
    /\ [](pc # "main" => base_url = BaseUrl(SuffixOf(location)))
    /\ [][pc # "main" => base_url' = base_url]_vars

C16_Witness ==
    /\ pc = "done"
    /\ Len(data) = 1
    /\ location = Str("hong kong", {1})
    /\ base_url = BaseUrl("hk")

\* the child containers of the menu root, the other nodes left out
Containers(root) == SelectSeq(root, LAMBDA node : node.kind = "div")

\* C17: the items emitted under the label at tab index n are exactly the
\* items of the n-th child container of the menu root, counting containers
\* only, whatever other nodes the root holds.
C17_LabelPairedWithNthContainer ==
    (pc = "menu_done" /\ dom.root # NoRoot) =>
        \A e \in 1..Len(menu_result) :
            \A n \in 1..Len(dom.labels) :
                menu_result[e].category = CategoryName(dom.labels[n]) =>
                    /\ n <= Len(Containers(dom.root))
                    /\ menu_result[e].items =
                          _get_menu_items(Containers(dom.root)[n])

\* C18: when there are more labels than child nodes under the menu root,
\* only the labels with no counterpart are skipped: every category of lower
\* index whose node yielded items is in the returned menu with its items.
C18_LowerCategoriesKept ==
    (/\ pc = "menu_done"
     /\ dom.root # NoRoot
     /\ Len(dom.labels) > Len(dom.root)) =>
        \A k \in 1..Len(dom.root) :
            _get_menu_items(dom.root[k]) # << >> =>
                \E e \in 1..Len(menu_result) :
                    menu_result[e] =
                        [ category |-> CategoryName(dom.labels[k]),
                          items |-> _get_menu_items(dom.root[k]) ]

\* C19: the menu scroll loop ends as soon as a full pass leaves the measured
\* height no greater than before: it is still running after a pass only
\* when that pass measured a greater height.
C19_LoopEndsWhenHeightStopsGrowing ==
    (pc = "menu_scroll" /\ passes > 0) => ~shrunk

====
